---------------------------- MODULE Spec2Model ----------------------------
(***************************************************************************)
(* Model of the OpenClaw gateway client of hearth_conversation             *)
(* (custom_components/hearth_conversation/api.py): the session lifecycle   *)
(* (__init__, _get_session, close), the three operations                   *)
(* (validate_connection, chat_completion, chat_completion_stream), their   *)
(* mapping of failures to the three error kinds, and the SSE line parser.  *)
(*                                                                         *)
(* The client runs on one asyncio event loop: a coroutine is atomic from   *)
(* one suspension point to the next.  Every action below is one such       *)
(* stretch of a handler; the transport (aiohttp and the gateway) is the    *)
(* environment, which answers each pending step with a response, a line,   *)
(* the end of the body or a fault.                                         *)
(***************************************************************************)
EXTENDS Integers, Sequences, FiniteSets, TLC

(***************************************************************************)
(* Bounds of the model.                                                    *)
(***************************************************************************)
\* Number of invocations of an operation (each may overlap the others).
MaxCalls == 2
\* Number of body lines the transport delivers to one streaming call.
MaxLines == 3

Calls == 1..MaxCalls
\* Session identities: one possibly injected at construction, and at most
\* one created per invocation.
Sids == 1..(MaxCalls + 1)
NoSession == 0

(***************************************************************************)
(* Exceptions.  An exception is its class name and the two bases the       *)
(* except clauses of api.py test: asyncio.TimeoutError and                 *)
(* aiohttp.ClientError.                                                    *)
(***************************************************************************)
Exc(name, isTimeout, isClientError) ==
    [name |-> name, isTimeout |-> isTimeout, isClientError |-> isClientError]

OpenClawAuthError == Exc("OpenClawAuthError", FALSE, FALSE)
OpenClawConnectionError == Exc("OpenClawConnectionError", FALSE, FALSE)
OpenClawTimeoutError == Exc("OpenClawTimeoutError", FALSE, FALSE)

\* What resp.raise_for_status() raises.
ClientResponseError == Exc("ClientResponseError", FALSE, TRUE)
\* What resp.json() raises when the body is not of a JSON content type.
ContentTypeError == Exc("ContentTypeError", FALSE, TRUE)
\* Structural and decoding errors of the Python runtime.
JSONDecodeError == Exc("JSONDecodeError", FALSE, FALSE)
KeyError == Exc("KeyError", FALSE, FALSE)
IndexError == Exc("IndexError", FALSE, FALSE)
TypeError == Exc("TypeError", FALSE, FALSE)
AttributeError == Exc("AttributeError", FALSE, FALSE)
UnicodeDecodeError == Exc("UnicodeDecodeError", FALSE, FALSE)
NoExc == Exc("", FALSE, FALSE)

\* Faults the transport raises: a plain timeout, a timeout that is also a
\* client error (aiohttp.ServerTimeoutError), a failed connection (refused,
\* DNS, TLS: ClientConnectorError and its subclasses), a reset
\* (ClientOSError), and an unexpected exception of neither base.
TransportFaults ==
    { Exc("asyncio.TimeoutError", TRUE, FALSE),
      Exc("ServerTimeoutError", TRUE, TRUE),
      Exc("ClientConnectorError", FALSE, TRUE),
      Exc("ClientOSError", FALSE, TRUE),
      Exc("RuntimeError", FALSE, FALSE) }

\* The faults used where several calls interleave.
FewFaults ==
    { Exc("asyncio.TimeoutError", TRUE, FALSE) }

\* Response statuses the gateway may answer with.
Statuses == {200, 204, 304, 401, 403, 404, 500}
FewStatuses == {200, 401}

(***************************************************************************)
(* JSON values as json.loads builds them: a kind and a Python value.       *)
(***************************************************************************)
JStr(s) == [k |-> "str", v |-> s]
JNum(n) == [k |-> "num", v |-> n]
JNull == [k |-> "null", v |-> 0]
JBool(b) == [k |-> "bool", v |-> b]
JList(items) == [k |-> "list", v |-> items]
JObj(fields) == [k |-> "obj", v |-> fields]
EmptyObj == JObj(<<>>)

\* The result of evaluating a Python expression: a value or an exception.
Ok(val) == [exc |-> NoExc, val |-> val]
Raise(e) == [exc |-> e, val |-> JNull]
Raised(r) == r.exc.name # ""

\* x[key] for a str key.
SubscriptKey(x, key) ==
    IF x.k = "obj"
    THEN IF key \in DOMAIN x.v THEN Ok(x.v[key]) ELSE Raise(KeyError)
    ELSE Raise(TypeError)

\* x[0]: the first item of a list, the first character of a str; a dict
\* built by json.loads has only str keys, so 0 is never one of them.
SubscriptZero(x) ==
    CASE x.k = "list" -> IF Len(x.v) > 0 THEN Ok(x.v[1]) ELSE Raise(IndexError)
      [] x.k = "str" -> IF Len(x.v) = 0 THEN Raise(IndexError)
                        ELSE Ok(JStr(SubSeq(x.v, 1, 1)))
      [] x.k = "obj" -> Raise(KeyError)
      [] OTHER -> Raise(TypeError)

\* x.get(key, default): only a dict has the method.
DictGet(x, key, default) ==
    IF x.k = "obj"
    THEN IF key \in DOMAIN x.v THEN Ok(x.v[key]) ELSE Ok(default)
    ELSE Raise(AttributeError)

\* bool(x).
Truthy(x) ==
    CASE x.k = "str" -> x.v # ""
      [] x.k = "num" -> x.v # 0
      [] x.k = "null" -> FALSE
      [] x.k = "bool" -> x.v
      [] x.k = "list" -> Len(x.v) > 0
      [] x.k = "obj" -> DOMAIN x.v # {}

(***************************************************************************)
(* Text.  A line of the body is a sequence of tokens; its text is the      *)
(* concatenation of the tokens.  The whitespace tokens are single          *)
(* characters, "data:" is the five characters before the space of the      *)
(* prefix "data: ", and a JSON text is one token.                          *)
(***************************************************************************)
Whitespace == {" ", "\t", "\r", "\n"}
\* A byte sequence that is not UTF-8.
BadUtf8 == "<0xFF>"

\* JSON texts of the payloads and what json.loads makes of each.
TxtHello == "{\"choices\":[{\"delta\":{\"content\":\"Hello\"}}]}"
TxtWorld == "{\"choices\":[{\"delta\":{\"content\":\" world\"}}]}"
TxtOK == "{\"choices\":[{\"delta\":{\"content\":\"OK\"}}]}"
TxtEmptyContent == "{\"choices\":[{\"delta\":{\"content\":\"\"}}]}"
TxtNullContent == "{\"choices\":[{\"delta\":{\"content\":null}}]}"
TxtNoContent == "{\"choices\":[{\"delta\":{}}]}"
TxtNoDelta == "{\"choices\":[{}]}"
TxtEmptyChoices == "{\"choices\":[]}"
TxtNoChoices == "{}"
TxtNullDelta == "{\"choices\":[{\"delta\":null}]}"
TxtNullChoices == "{\"choices\":null}"
TxtChoiceNotObject == "{\"choices\":[1]}"
TxtNumber == "5"
TxtList == "[]"
TxtNumContent == "{\"choices\":[{\"delta\":{\"content\":5}}]}"
TxtReply == "{\"choices\":[{\"message\":{\"content\":\"Hi there\"}}]}"
TxtReplyPadded == "{\"choices\":[{\"message\":{\"content\":\" Hi \\n\"}}]}"
TxtNoMsgContent == "{\"choices\":[{\"message\":{}}]}"

Choices(items) == JObj([choices |-> items])
Delta(content) ==
    Choices(JList(<<JObj([delta |-> JObj([content |-> content])])>>))
Message(content) ==
    Choices(JList(<<JObj([message |-> JObj([content |-> content])])>>))

JsonTexts ==
    { TxtHello, TxtWorld, TxtOK, TxtEmptyContent, TxtNullContent, TxtNoContent,
      TxtNoDelta, TxtEmptyChoices, TxtNoChoices, TxtNullDelta, TxtNullChoices,
      TxtChoiceNotObject, TxtNumber, TxtList, TxtNumContent, TxtReply,
      TxtReplyPadded, TxtNoMsgContent }

JsonValue(txt) ==
    CASE txt = TxtHello -> Delta(JStr("Hello"))
      [] txt = TxtWorld -> Delta(JStr(" world"))
      [] txt = TxtOK -> Delta(JStr("OK"))
      [] txt = TxtEmptyContent -> Delta(JStr(""))
      [] txt = TxtNullContent -> Delta(JNull)
      [] txt = TxtNoContent -> Choices(JList(<<JObj([delta |-> EmptyObj])>>))
      [] txt = TxtNoDelta -> Choices(JList(<<EmptyObj>>))
      [] txt = TxtEmptyChoices -> Choices(JList(<<>>))
      [] txt = TxtNoChoices -> EmptyObj
      [] txt = TxtNullDelta -> Choices(JList(<<JObj([delta |-> JNull])>>))
      [] txt = TxtNullChoices -> Choices(JNull)
      [] txt = TxtChoiceNotObject -> Choices(JList(<<JNum(1)>>))
      [] txt = TxtNumber -> JNum(5)
      [] txt = TxtList -> JList(<<>>)
      [] txt = TxtNumContent -> Delta(JNum(5))
      [] txt = TxtReply -> Message(JStr("Hi there"))
      [] txt = TxtReplyPadded -> Message(JStr(" Hi \n"))
      [] txt = TxtNoMsgContent ->
            Choices(JList(<<JObj([message |-> EmptyObj])>>))

\* str.strip(): drops the whitespace at both ends.
RECURSIVE LStrip(_)
LStrip(s) ==
    IF Len(s) > 0 /\ s[1] \in Whitespace THEN LStrip(Tail(s)) ELSE s

RECURSIVE RStrip(_)
RStrip(s) ==
    IF Len(s) > 0 /\ s[Len(s)] \in Whitespace
    THEN RStrip(SubSeq(s, 1, Len(s) - 1))
    ELSE s

\* str.rstrip() in the place of str.strip().
StripTrailingOnly(s) == RStrip(s)

Strip(s) == LStrip(RStrip(s))

\* bytes.decode("utf-8"): the text itself, or UnicodeDecodeError.
Decodable(line) == \A i \in 1..Len(line) : line[i] # BadUtf8

\* decoded.startswith("data: ")
StartsWithData(s) == Len(s) >= 2 /\ s[1] = "data:" /\ s[2] = " "

\* decoded[6:] of a text that starts with "data: ".
AfterPrefix(s) == SubSeq(s, 3, Len(s))

\* data_str == "[DONE]"
IsDone(payload) == payload = <<"[DONE]">>

\* json.loads(data_str): whitespace around the one JSON text is allowed,
\* anything else is a JSONDecodeError.
JsonLoads(payload) ==
    LET t == Strip(payload)
    IN  IF Len(t) = 1 /\ t[1] \in JsonTexts
        THEN Ok(JsonValue(t[1]))
        ELSE Raise(JSONDecodeError)

(***************************************************************************)
(* The SSE parser of chat_completion_stream.                               *)
(***************************************************************************)
\* The body of the try block: json.loads, then
\* data["choices"][0].get("delta", {}), then delta.get("content").
DeltaContent(data_str) ==
    LET data == JsonLoads(data_str)
        choices == IF Raised(data) THEN data ELSE SubscriptKey(data.val, "choices")
        first == IF Raised(choices) THEN choices ELSE SubscriptZero(choices.val)
        delta == IF Raised(first) THEN first ELSE DictGet(first.val, "delta", EmptyObj)
    IN  IF Raised(delta) THEN delta ELSE DictGet(delta.val, "content", JNull)

\* except (json.JSONDecodeError, KeyError, IndexError): continue
ParserCatches(e) == e.name \in {"JSONDecodeError", "KeyError", "IndexError"}

\* StreamOnLine without the break at [DONE]: the sentinel is handed to
\* json.loads like any payload, and reading goes on.
StreamOnLineNoBreak(chunks, line) ==
    IF ~Decodable(line)
    THEN [ctl |-> "raise", chunks |-> chunks, exc |-> UnicodeDecodeError]
    ELSE
    LET decoded == Strip(line)
        content == DeltaContent(AfterPrefix(decoded))
    IN  IF ~StartsWithData(decoded)
        THEN [ctl |-> "continue", chunks |-> chunks, exc |-> NoExc]
        ELSE IF Raised(content)
        THEN IF ParserCatches(content.exc)
             THEN [ctl |-> "continue", chunks |-> chunks, exc |-> NoExc]
             ELSE [ctl |-> "raise", chunks |-> chunks, exc |-> content.exc]
        ELSE IF Truthy(content.val)
        THEN [ctl |-> "continue", chunks |-> Append(chunks, content.val),
              exc |-> NoExc]
        ELSE [ctl |-> "continue", chunks |-> chunks, exc |-> NoExc]

\* One turn of the loop over resp.content: what the loop does next
\* ("continue", "break" or "raise"), the chunks after it, and the exception.
StreamOnLine(chunks, line) ==
    IF ~Decodable(line)
    THEN [ctl |-> "raise", chunks |-> chunks, exc |-> UnicodeDecodeError]
    ELSE
    LET decoded == Strip(line)
        data_str == AfterPrefix(decoded)
        content == DeltaContent(data_str)
    IN  IF ~StartsWithData(decoded)
        THEN [ctl |-> "continue", chunks |-> chunks, exc |-> NoExc]
        ELSE IF IsDone(data_str)
        THEN [ctl |-> "break", chunks |-> chunks, exc |-> NoExc]
        ELSE IF Raised(content)
        THEN IF ParserCatches(content.exc)
             THEN [ctl |-> "continue", chunks |-> chunks, exc |-> NoExc]
             ELSE [ctl |-> "raise", chunks |-> chunks, exc |-> content.exc]
        ELSE IF Truthy(content.val)
        THEN [ctl |-> "continue", chunks |-> Append(chunks, content.val),
              exc |-> NoExc]
        ELSE [ctl |-> "continue", chunks |-> chunks, exc |-> NoExc]

RECURSIVE Concat(_)
Concat(chunks) ==
    IF chunks = <<>> THEN "" ELSE Head(chunks).v \o Concat(Tail(chunks))

\* "".join(chunks): every item must be a str.
Join(chunks) ==
    IF \A i \in 1..Len(chunks) : chunks[i].k = "str"
    THEN Ok(JStr(Concat(chunks)))
    ELSE Raise(TypeError)

(***************************************************************************)
(* The three operations from the response on.  Each handler has its own    *)
(* copy of the status test and of the except clauses.                      *)
(***************************************************************************)
\* resp.raise_for_status() raises for a status of 400 and above.
RaisesForStatus(status) == status >= 400

\* ValidateOnResponse with the status test narrowed to 401.
ValidateOnResponseOnly401(status) ==
    IF status = 401 THEN Raise(OpenClawAuthError)
    ELSE IF RaisesForStatus(status) THEN Raise(ClientResponseError)
    ELSE Ok(JBool(TRUE))

\* validate_connection, inside the async with.
ValidateOnResponse(status) ==
    IF status \in {401, 403} THEN Raise(OpenClawAuthError)
    ELSE IF RaisesForStatus(status) THEN Raise(ClientResponseError)
    ELSE Ok(JBool(TRUE))

\* ValidateExcept without the except aiohttp.ClientError clause.
ValidateExceptNoClientError(e) ==
    IF e.name = "OpenClawAuthError" THEN e
    ELSE IF e.isTimeout THEN OpenClawTimeoutError
    ELSE e

\* validate_connection's except clauses, in their order.
ValidateExcept(e) ==
    IF e.name = "OpenClawAuthError" THEN e
    ELSE IF e.isTimeout THEN OpenClawTimeoutError
    ELSE IF e.isClientError THEN OpenClawConnectionError
    ELSE e

\* ChatOnResponse without the call of resp.raise_for_status().
ChatOnResponseNoRaise(status) ==
    IF status \in {401, 403} THEN Raise(OpenClawAuthError)
    ELSE Ok(JNull)

\* chat_completion, inside the async with, up to the await of resp.json().
ChatOnResponse(status) ==
    IF status \in {401, 403} THEN Raise(OpenClawAuthError)
    ELSE IF RaisesForStatus(status) THEN Raise(ClientResponseError)
    ELSE Ok(JNull)

\* resp.json(): the content type is checked, an empty body is None, and
\* the text is handed to json.loads.
RespJson(body) ==
    IF ~body.json_ctype THEN Raise(ContentTypeError)
    ELSE IF Strip(body.text) = <<>> THEN Ok(JNull)
    ELSE JsonLoads(body.text)

\* data = await resp.json(); return data["choices"][0]["message"]["content"]
ChatOnBody(body) ==
    LET data == RespJson(body)
        choices == IF Raised(data) THEN data ELSE SubscriptKey(data.val, "choices")
        first == IF Raised(choices) THEN choices ELSE SubscriptZero(choices.val)
        message == IF Raised(first) THEN first ELSE SubscriptKey(first.val, "message")
    IN  IF Raised(message) THEN message ELSE SubscriptKey(message.val, "content")

\* chat_completion with a last clause "except Exception" that wraps
\* whatever is left into OpenClawConnectionError.
ChatExceptWrapsAll(e) ==
    IF e.name = "OpenClawAuthError" THEN e
    ELSE IF e.isTimeout THEN OpenClawTimeoutError
    ELSE OpenClawConnectionError

\* chat_completion's except clauses, in their order.
ChatExcept(e) ==
    IF e.name = "OpenClawAuthError" THEN e
    ELSE IF e.isTimeout THEN OpenClawTimeoutError
    ELSE IF e.isClientError THEN OpenClawConnectionError
    ELSE e

\* chat_completion_stream that enters the loop without a look at the
\* status.
StreamOnResponseUnchecked(status) == Ok(JNull)

\* chat_completion_stream, inside the async with, up to the loop.
StreamOnResponse(status) ==
    IF status \in {401, 403} THEN Raise(OpenClawAuthError)
    ELSE IF RaisesForStatus(status) THEN Raise(ClientResponseError)
    ELSE Ok(JNull)

\* The loop with a handler of its own that returns what was collected.
StreamOnFaultReturnsPartial(chunks, f) == Join(chunks)

\* The transport raises inside "async for line in resp.content": the loop
\* has no handler for it, the chunks are dropped and the exception reaches
\* the except clauses of the operation.
StreamOnFault(chunks, f) == Raise(f)

\* StreamExcept with the two except clauses in the other order.
StreamExceptClientErrorFirst(e) ==
    IF e.name = "OpenClawAuthError" THEN e
    ELSE IF e.isClientError THEN OpenClawConnectionError
    ELSE IF e.isTimeout THEN OpenClawTimeoutError
    ELSE e

\* chat_completion_stream's except clauses, in their order.
StreamExcept(e) ==
    IF e.name = "OpenClawAuthError" THEN e
    ELSE IF e.isTimeout THEN OpenClawTimeoutError
    ELSE IF e.isClientError THEN OpenClawConnectionError
    ELSE e

Ops == {"validate_connection", "chat_completion", "chat_completion_stream"}

OnResponse(op, status) ==
    CASE op = "validate_connection" -> ValidateOnResponse(status)
      [] op = "chat_completion" -> ChatOnResponse(status)
      [] op = "chat_completion_stream" -> StreamOnResponse(status)

Except(op, e) ==
    CASE op = "validate_connection" -> ValidateExcept(e)
      [] op = "chat_completion" -> ChatExcept(e)
      [] op = "chat_completion_stream" -> StreamExcept(e)

\* What the caller of the operation gets: the value, or the exception the
\* except clauses let out.
Outcome(op, r) == IF Raised(r) THEN Raise(Except(op, r.exc)) ELSE r

(***************************************************************************)
(* Inputs: the lines and the bodies the gateway may send.                  *)
(***************************************************************************)
DataLine(payload) == <<"data:", " ">> \o payload \o <<"\n">>

LineHello == DataLine(<<TxtHello>>)
LineWorld == <<"data:", " ", TxtWorld, "\r", "\n">>
LineOK == DataLine(<<TxtOK>>)
LineDone == DataLine(<<"[DONE]">>)
LineBlank == <<"\n">>
LinePing == <<"event:", " ", "ping", "\n">>
LineNotJson == DataLine(<<"not-json">>)
\* "data:[DONE]": no space after the colon.
LineNoSpace == <<"data:", "[DONE]", "\n">>
\* "data:  [DONE]": the payload is " [DONE]".
LinePaddedDone == DataLine(<<" ", "[DONE]">>)
\* Whitespace before the prefix.
LineIndentedOK == <<" ">> \o LineOK
LineIndentedDone == <<" ">> \o LineDone
LineBadUtf8 == <<"data:", " ", BadUtf8, "\n">>

SseLines ==
    { LineHello, LineWorld, LineDone, LineBlank, LinePing, LineNotJson,
      LineNoSpace, LinePaddedDone, LineIndentedOK, LineIndentedDone, LineBadUtf8,
      DataLine(<<TxtEmptyContent>>), DataLine(<<TxtNoContent>>),
      DataLine(<<TxtNoDelta>>), DataLine(<<TxtEmptyChoices>>),
      DataLine(<<TxtNoChoices>>), DataLine(<<TxtNullDelta>>),
      DataLine(<<TxtChoiceNotObject>>), DataLine(<<TxtNumber>>),
      DataLine(<<TxtNumContent>>) }

FewLines == { LineDone }

Body(json_ctype, text) == [json_ctype |-> json_ctype, text |-> text]
NoBody == Body(TRUE, <<>>)

ChatBodies ==
    { Body(TRUE, <<TxtReply>>), Body(TRUE, <<TxtReply, "\n">>),
      Body(FALSE, <<TxtReply>>), Body(FALSE, <<"<html>">>),
      Body(TRUE, <<"not-json">>), Body(TRUE, <<>>),
      Body(TRUE, <<TxtNoChoices>>), Body(TRUE, <<TxtEmptyChoices>>),
      Body(TRUE, <<TxtNoDelta>>), Body(TRUE, <<TxtNumber>>),
      Body(TRUE, <<TxtNullChoices>>), Body(TRUE, <<TxtReplyPadded>>),
      Body(TRUE, <<TxtNoMsgContent>>) }

FewBodies == { Body(TRUE, <<TxtReply>>), Body(TRUE, <<"not-json">>) }

(***************************************************************************)
(* State.                                                                  *)
(***************************************************************************)
VARIABLES
    session,        \* self._session: a session identity, or NoSession
    owned_session,  \* self._owned_session
    injected,       \* whether a session was passed to __init__ (it is 1)
    sess,           \* every session: its state and who created it
    closeIssued,    \* the sessions close() called session.close() on, in order
    closeOut,       \* how the last close() that ended did so: "returned"
                    \* or "raised" ("none" before any has ended)
    closing,        \* the close() calls suspended in session.close()
    call,           \* the invocations of the three operations
    fn,             \* one run of a function of conversation.py: its
                    \* arguments, and its result once it has run
    config,         \* the endpoint configuration: self._base_url,
                    \* self._headers, self._verify_ssl, self._timeout
    flow            \* async_setup_entry / async_unload_entry or
                    \* async_step_user working with the client

vars ==
    <<session, owned_session, injected, sess, closeIssued, closeOut, closing, call, fn,
      config, flow>>

InjectedSid == 1

(***************************************************************************)
(* The arguments of an operation and the requests it issues.               *)
(***************************************************************************)
Msg(role, content) == [role |-> role, content |-> content]
MsgSystem == Msg("system", JStr("Be brief."))
MsgUser == Msg("user", JStr("Hello"))
MsgAssistant == Msg("assistant", JStr("Hi there"))
MsgUserAgain == Msg("user", JStr("Lights on"))

Args(messages, agent_id) == [messages |-> messages, agent_id |-> agent_id]
NoArgs == Args(<<>>, "")
ArgsMain == Args(<<MsgSystem, MsgUser>>, "agent:main")
ArgsCodex ==
    Args(<<MsgSystem, MsgUserAgain, MsgAssistant, MsgUser>>,
         "openai-codex/gpt-5.2-codex")
CallArgs == { ArgsMain, ArgsCodex }
FewArgs == { ArgsMain }

NoPayload == [model |-> "", messages |-> <<>>, stream |-> FALSE]
\* session.get(f"{base_url}/v1/models", headers=...)
ValidateRequest ==
    [method |-> "GET", path |-> "/v1/models", json |-> FALSE,
     payload |-> NoPayload]

\* chat_completion that posts the default agent whatever agent_id is.
ChatRequestDefaultAgent(messages, agent_id) ==
    [method |-> "POST", path |-> "/v1/chat/completions", json |-> TRUE,
     payload |-> [model |-> "main", messages |-> messages, stream |-> FALSE]]

\* session.post(f"{base_url}/v1/chat/completions", json=payload) with
\* payload = {"model": agent_id, "messages": messages, "stream": False}
ChatRequest(messages, agent_id) ==
    [method |-> "POST", path |-> "/v1/chat/completions", json |-> TRUE,
     payload |-> [model |-> agent_id, messages |-> messages, stream |-> FALSE]]

\* The same with "stream": True.
StreamRequest(messages, agent_id) ==
    [method |-> "POST", path |-> "/v1/chat/completions", json |-> TRUE,
     payload |-> [model |-> agent_id, messages |-> messages, stream |-> TRUE]]

\* An operation that probes GET /v1/models before its own request.
RequestsOfWithProbe(op, args) ==
    CASE op = "validate_connection" -> <<ValidateRequest>>
      [] op = "chat_completion" ->
            <<ValidateRequest, ChatRequest(args.messages, args.agent_id)>>
      [] op = "chat_completion_stream" ->
            <<ValidateRequest, StreamRequest(args.messages, args.agent_id)>>

\* The requests an operation issues, in order: each operation has one
\* session.get or session.post, outside any loop, and every except clause
\* raises.
RequestsOf(op, args) ==
    CASE op = "validate_connection" -> <<ValidateRequest>>
      [] op = "chat_completion" ->
            <<ChatRequest(args.messages, args.agent_id)>>
      [] op = "chat_completion_stream" ->
            <<StreamRequest(args.messages, args.agent_id)>>

IdleCall ==
    [pc |-> "idle", op |-> "", args |-> NoArgs, reqs |-> <<>>,
     sid |-> NoSession, openAtIssue |-> FALSE,
     created |-> FALSE, status |-> 0, fault |-> NoExc, faultAt |-> "",
     body |-> NoBody, lines |-> <<>>, chunks |-> <<>>, out |-> Ok(JNull)]

\* __init__: the endpoint configuration of the client.  base_url is taken
\* as given without a trailing slash.
Config(api_key, verify_ssl, timeout) ==
    [base_url |-> "https://gateway.example",
     headers |-> [Authorization |-> "Bearer " \o api_key,
                  ContentType |-> "application/json"],
     verify_ssl |-> verify_ssl, timeout |-> timeout]

\* What a session is configured with: whether its connector verifies
\* certificates, and its total timeout in seconds.
NoConfig == [ssl |-> FALSE, timeout |-> 0]
\* aiohttp.ClientSession() made by someone else with aiohttp's defaults:
\* certificates verified, ClientTimeout(total=300).
AiohttpDefaults == [ssl |-> TRUE, timeout |-> 300]
\* aiohttp.ClientSession(timeout=ClientTimeout(total=None)) made by someone
\* else: no total timeout (aiohttp takes None and 0 alike for "disabled").
NoTotal == 0
UntimedSession == [ssl |-> TRUE, timeout |-> NoTotal]
\* _get_session: TCPConnector(ssl=self._verify_ssl) and
\* ClientSession(connector=connector, timeout=self._timeout)
SessionConfig(cfg) == [ssl |-> cfg.verify_ssl, timeout |-> cfg.timeout]

\* Neither the setup of an entry nor a config flow is under way.
NoFlow ==
    [kind |-> "", pc |-> "", closes |-> 0, error |-> "", result |-> "",
     runtime_data |-> FALSE, configured |-> FALSE]

\* No function of conversation.py is run.
NoFn == [name |-> "", args |-> <<>>, done |-> FALSE, out |-> <<>>]

\* __init__ taking every session for the client's own.
InitOwnsInjected ==
    /\ injected \in BOOLEAN
    /\ session = IF injected THEN InjectedSid ELSE NoSession
    /\ owned_session = TRUE
    /\ sess = [s \in Sids |->
                 IF injected /\ s = InjectedSid
                 THEN [state |-> "open", by |-> "external",
                       cfg |-> AiohttpDefaults]
                 ELSE [state |-> "unused", by |-> "", cfg |-> NoConfig]]
    /\ closeIssued = <<>>
    /\ closeOut = "none"
    /\ closing = 0
    /\ call = [c \in Calls |-> IdleCall]
    /\ fn = NoFn
    /\ config = Config("secret", FALSE, 10)
    /\ flow = NoFlow

\* __init__: self._session = session; self._owned_session = session is None
Init ==
    /\ injected \in BOOLEAN
    /\ session = IF injected THEN InjectedSid ELSE NoSession
    /\ owned_session = ~injected
    /\ sess = [s \in Sids |->
                 IF injected /\ s = InjectedSid
                 THEN [state |-> "open", by |-> "external",
                       cfg |-> AiohttpDefaults]
                 ELSE [state |-> "unused", by |-> "", cfg |-> NoConfig]]
    /\ closeIssued = <<>>
    /\ closeOut = "none"
    /\ closing = 0
    /\ call = [c \in Calls |-> IdleCall]
    /\ fn = NoFn
    /\ config = Config("secret", FALSE, 10)
    /\ flow = NoFlow

(***************************************************************************)
(* The session lifecycle.                                                  *)
(***************************************************************************)
IsClosed(s) == sess[s].state = "closed"

\* _get_session creating a session on every call.
GetSessionCreatesAlways == TRUE

\* _get_session without the test of .closed.
GetSessionCreatesOnlyIfNone == session = NoSession

\* _get_session that makes a session of its own for every operation after
\* the first on a session.
GetSessionCreatesAfterUse ==
    \/ session = NoSession \/ IsClosed(session)
    \/ \E c \in Calls : call[c].pc # "idle" /\ call[c].sid = session

\* _get_session: if self._session is None or self._session.closed
GetSessionCreates == session = NoSession \/ IsClosed(session)

FreshSid == CHOOSE s \in Sids : sess[s].state = "unused" /\
                \A t \in Sids : sess[t].state = "unused" => s <= t

\* close() without the test of self._owned_session.
CloseTestNoOwned ==
    IF session = NoSession THEN Ok(JBool(FALSE))
    ELSE Ok(JBool(~IsClosed(session)))

\* close() without the test of self._session: .closed is read from None.
CloseTestNoNone ==
    IF ~owned_session THEN Ok(JBool(FALSE))
    ELSE IF session = NoSession THEN Raise(AttributeError)
    ELSE Ok(JBool(~IsClosed(session)))

\* close() that leaves the session alone while an operation is in flight.
CloseTestSkipsBusy ==
    IF ~owned_session THEN Ok(JBool(FALSE))
    ELSE IF session = NoSession THEN Ok(JBool(FALSE))
    ELSE IF \E c \in Calls : call[c].pc \in {"request", "json", "lines"}
         THEN Ok(JBool(FALSE))
    ELSE Ok(JBool(~IsClosed(session)))

\* close: if self._owned_session and self._session and not
\* self._session.closed.  The conjuncts are evaluated in this order, so
\* .closed is never read from None.
CloseTest ==
    IF ~owned_session THEN Ok(JBool(FALSE))
    ELSE IF session = NoSession THEN Ok(JBool(FALSE))
    ELSE Ok(JBool(~IsClosed(session)))

\* close().  When the test holds it awaits session.close(), which marks
\* the session closed before it first suspends; whether it suspends at all
\* is the transport's matter (suspends).  When the test fails close()
\* returns without an await.
CloseClient(suspends) ==
    /\ IF Raised(CloseTest)
       THEN /\ ~suspends
            /\ closeOut' = "raised"
            /\ UNCHANGED <<sess, closeIssued, closing>>
       ELSE IF CloseTest.val.v
       THEN /\ sess' = [sess EXCEPT ![session].state = "closed"]
            /\ closeIssued' = Append(closeIssued, session)
            /\ IF suspends
               THEN closing' = closing + 1 /\ UNCHANGED closeOut
               ELSE closeOut' = "returned" /\ UNCHANGED closing
       ELSE /\ ~suspends
            /\ closeOut' = "returned"
            /\ UNCHANGED <<sess, closeIssued, closing>>
    /\ UNCHANGED <<session, owned_session, injected, call, config>>

\* A close() suspended in session.close() goes on: it returns.
CloseReturnsClient ==
    /\ closing > 0
    /\ closing' = closing - 1
    /\ closeOut' = "returned"
    /\ UNCHANGED <<session, owned_session, injected, sess, closeIssued,
                   call, config>>

\* close() called on the client by itself, and its return when it was
\* suspended.
Close == \E suspends \in BOOLEAN : CloseClient(suspends) /\ UNCHANGED <<fn, flow>>
CloseReturns == CloseReturnsClient /\ UNCHANGED <<fn, flow>>

\* Someone else closes a session: the owner of the injected one, or the
\* transport's owner of one the client created.
ExternalClose(s) ==
    /\ sess[s].state = "open"
    /\ sess' = [sess EXCEPT ![s].state = "closed"]
    /\ UNCHANGED <<session, owned_session, injected, closeIssued, closeOut, closing,
                   call, fn, config, flow>>

(***************************************************************************)
(* The operations.                                                         *)
(***************************************************************************)
\* The start of an operation: session = await self._get_session(), and the
\* request is issued on that session.  _get_session never suspends and the
\* request starts in the same stretch, so this is one step.  Invocations
\* are numbered in the order they start.  validate_connection takes no
\* arguments (NoArgs).
InvokeClient(c, op, args) ==
    /\ call[c].pc = "idle"
    /\ \A d \in Calls : d < c => call[d].pc # "idle"
    /\ LET creates == GetSessionCreates
           used == IF creates THEN FreshSid ELSE session
       IN  /\ IF creates
              THEN /\ sess' = [sess EXCEPT
                                 ![used] = [state |-> "open", by |-> "client",
                                            cfg |-> SessionConfig(config)]]
                   /\ session' = used
                   /\ owned_session' = TRUE
              ELSE UNCHANGED <<sess, session, owned_session>>
           /\ call' = [call EXCEPT ![c] =
                         [IdleCall EXCEPT !.pc = "request", !.op = op,
                                          !.args = args,
                                          !.reqs = RequestsOf(op, args),
                                          !.sid = used, !.created = creates,
                                          !.openAtIssue = (sess'[used].state = "open")]]
    /\ UNCHANGED <<injected, closeIssued, closeOut, closing, config>>

\* An operation invoked on the client by itself.
Invoke(c, op, args) == InvokeClient(c, op, args) /\ UNCHANGED <<fn, flow>>

\* The response arrives: the status is classified; validate_connection
\* returns, the two others go on to read the body.
Respond(c, status) ==
    /\ call[c].pc = "request"
    /\ LET r == OnResponse(call[c].op, status)
       IN  IF Raised(r) \/ call[c].op = "validate_connection"
           THEN call' = [call EXCEPT ![c].pc = "done", ![c].status = status,
                                     ![c].out = Outcome(call[c].op, r)]
           ELSE call' = [call EXCEPT ![c].status = status,
                            ![c].pc = IF call[c].op = "chat_completion"
                                      THEN "json" ELSE "lines"]
    /\ UNCHANGED <<session, owned_session, injected, sess, closeIssued, closeOut, closing, fn,
                   config, flow>>

\* The transport raises while the operation awaits the response, the body
\* or the next line.
TransportFault(c, f) ==
    /\ call[c].pc \in {"request", "json", "lines"}
    /\ call' = [call EXCEPT ![c].pc = "done", ![c].fault = f,
                            ![c].faultAt = call[c].pc,
                            ![c].out = Outcome(call[c].op,
                                IF call[c].op = "chat_completion_stream"
                                   /\ call[c].pc = "lines"
                                THEN StreamOnFault(call[c].chunks, f)
                                ELSE Raise(f))]
    /\ UNCHANGED <<session, owned_session, injected, sess, closeIssued, closeOut, closing, fn,
                   config, flow>>

\* chat_completion: the body arrives.
ChatBody(c, body) ==
    /\ call[c].pc = "json"
    /\ call' = [call EXCEPT ![c].pc = "done", ![c].body = body,
                            ![c].out = Outcome(call[c].op, ChatOnBody(body))]
    /\ UNCHANGED <<session, owned_session, injected, sess, closeIssued, closeOut, closing, fn,
                   config, flow>>

\* The call after one turn t of the loop on a line.
AfterLine(rec, line, t) ==
    [rec EXCEPT
        !.lines = Append(rec.lines, line),
        !.chunks = t.chunks,
        !.pc = IF t.ctl = "continue" THEN "lines" ELSE "done",
        !.out = CASE t.ctl = "continue" -> rec.out
                  [] t.ctl = "break" -> Outcome(rec.op, Join(t.chunks))
                  [] t.ctl = "raise" -> Outcome(rec.op, Raise(t.exc))]

\* chat_completion_stream: one line arrives.
StreamLine(c, line) ==
    /\ call[c].pc = "lines"
    /\ Len(call[c].lines) < MaxLines
    /\ call' = [call EXCEPT ![c] =
                  AfterLine(call[c], line, StreamOnLine(call[c].chunks, line))]
    /\ UNCHANGED <<session, owned_session, injected, sess, closeIssued, closeOut, closing, fn,
                   config, flow>>

\* chat_completion_stream: the body ends without [DONE].
StreamEnd(c) ==
    /\ call[c].pc = "lines"
    /\ call' = [call EXCEPT ![c].pc = "done",
                            ![c].out = Outcome(call[c].op, Join(call[c].chunks))]
    /\ UNCHANGED <<session, owned_session, injected, sess, closeIssued, closeOut, closing, fn,
                   config, flow>>

\* Overlapping invocations, close() and external closes, in any order.
Next ==
    \/ \E c \in Calls, op \in Ops, args \in FewArgs :
            Invoke(c, op, IF op = "validate_connection" THEN NoArgs ELSE args)
    \/ \E c \in Calls, status \in FewStatuses : Respond(c, status)
    \/ \E c \in Calls, f \in FewFaults : TransportFault(c, f)
    \/ \E c \in Calls, body \in FewBodies : ChatBody(c, body)
    \/ \E c \in Calls, line \in FewLines : StreamLine(c, line)
    \/ \E c \in Calls : StreamEnd(c)
    \/ Close
    \/ CloseReturns
    \/ \E s \in Sids : ExternalClose(s)

Spec == Init /\ [][Next]_vars

\* One invocation at a time, with every response, body, line and fault.
NextOps ==
    \/ \E op \in Ops, args \in CallArgs :
            Invoke(1, op, IF op = "validate_connection" THEN NoArgs ELSE args)
    \/ \E status \in Statuses : Respond(1, status)
    \/ \E f \in TransportFaults : TransportFault(1, f)
    \/ \E body \in ChatBodies : ChatBody(1, body)
    \/ \E line \in SseLines : StreamLine(1, line)
    \/ StreamEnd(1)

SpecOps == Init /\ [][NextOps]_vars

(***************************************************************************)
(* Progress.  One invocation whose every pending step the transport        *)
(* answers in the end, on a session of the client's own making or on an    *)
(* injected one, which has its creator's timeout or none.  The total       *)
(* timeout of the session in use ends a request that is still under way    *)
(* when it expires.  A streamed body need not end: the lines after the     *)
(* first MaxLines are those that add no fragment (keep-alives among them), *)
(* and the call keeps the last MaxLines lines it read.                     *)
(***************************************************************************)
LiveStatuses == {200, 401, 500}
LiveLines == { LineHello, LineDone, LineBlank, LinePing }

\* __init__ with no session, or with a session whose creator gave it
\* aiohttp's default timeout or no total timeout.
InitLive ==
    /\ injected \in BOOLEAN
    /\ session = IF injected THEN InjectedSid ELSE NoSession
    /\ owned_session = ~injected
    /\ \E given \in {AiohttpDefaults, UntimedSession} :
          /\ ~injected => given = AiohttpDefaults
          /\ sess = [s \in Sids |->
                       IF injected /\ s = InjectedSid
                       THEN [state |-> "open", by |-> "external",
                             cfg |-> given]
                       ELSE [state |-> "unused", by |-> "", cfg |-> NoConfig]]
    /\ closeIssued = <<>>
    /\ closeOut = "none"
    /\ closing = 0
    /\ call = [c \in Calls |-> IdleCall]
    /\ fn = NoFn
    /\ config = Config("secret", FALSE, 10)
    /\ flow = NoFlow

\* chat_completion_stream: one more line arrives after the first MaxLines.
StreamLineBeyond(c, line) ==
    /\ call[c].pc = "lines"
    /\ Len(call[c].lines) = MaxLines
    /\ StreamOnLine(call[c].chunks, line).chunks = call[c].chunks
    /\ call' = [call EXCEPT ![c] =
                  [AfterLine(call[c], line,
                             StreamOnLine(call[c].chunks, line))
                     EXCEPT !.lines = Tail(@)]]
    /\ UNCHANGED <<session, owned_session, injected, sess, closeIssued, closeOut, closing, fn,
                   config, flow>>

\* The transport answers the pending step of a call: with a response, a
\* body, a line, the end of the body, or a fault (a timeout among them).
Answer(c) ==
    \/ \E status \in LiveStatuses : Respond(c, status)
    \/ \E f \in FewFaults : TransportFault(c, f)
    \/ \E body \in FewBodies : ChatBody(c, body)
    \/ \E line \in LiveLines : StreamLine(c, line)
    \/ \E line \in LiveLines : StreamLineBeyond(c, line)
    \/ StreamEnd(c)

\* The total timeout of the session the call runs on expires while the
\* request is under way (ClientTimeout(total=...) covers the whole request,
\* the reading of the body included): asyncio.TimeoutError is raised into
\* the operation at the await it is suspended in.  A session without a
\* total timeout has no such timer.
TotalTimeout(c) ==
    /\ call[c].pc \in {"request", "json", "lines"}
    /\ sess[call[c].sid].cfg.timeout # NoTotal
    /\ TransportFault(c, Exc("asyncio.TimeoutError", TRUE, FALSE))

NextLive ==
    \/ \E op \in Ops :
            Invoke(1, op, IF op = "validate_connection" THEN NoArgs
                          ELSE ArgsMain)
    \/ Answer(1)
    \/ TotalTimeout(1)

\* The transport answers every pending step in the end, and a total timeout
\* that is set expires in the end.
SpecLive ==
    InitLive /\ [][NextLive]_vars
        /\ WF_vars(Answer(1)) /\ WF_vars(TotalTimeout(1))

(***************************************************************************)
(* conversation.py: the model reference, the messages and the handler.     *)
(***************************************************************************)
MaxTokens == 3
MaxLog == 3
MaxHistory == 3

SeqsUpTo(S, n) == UNION { [1..k -> S] : k \in 0..n }

\* A str as the sequence of its pieces; None is JNull.
Text(tokens) == [k |-> "text", v |-> tokens]
ModelTokens == { " ", "agent", ":", "openclaw", "/", "voice", "gpt" }
Overrides == { JNull } \cup { Text(t) : t \in SeqsUpTo(ModelTokens, MaxTokens) }
AgentIds == { <<"main">>, <<"voice">> }

\* raw.startswith(prefix)
StartsWith(raw, prefix) ==
    Len(raw) >= Len(prefix) /\ SubSeq(raw, 1, Len(prefix)) = prefix
\* "/" in raw
HasSlash(raw) == \E i \in 1..Len(raw) : raw[i] = "/"

\* _resolve_model that prefixes whatever the override is.
ResolveModelAlwaysPrefix(model_override, agent_id) ==
    LET raw == IF model_override.k = "null" \/ model_override.v = <<>>
               THEN <<>> ELSE Strip(model_override.v)
    IN  IF raw = <<>> THEN <<"agent", ":">> \o agent_id
        ELSE <<"agent", ":">> \o raw

\* _resolve_model: raw = model_override.strip() if model_override else "",
\* then the three returns.
ResolveModel(model_override, agent_id) ==
    LET raw == IF model_override.k = "null" \/ model_override.v = <<>>
               THEN <<>> ELSE Strip(model_override.v)
    IN  IF raw = <<>> THEN <<"agent", ":">> \o agent_id
        ELSE IF \/ HasSlash(raw) \/ StartsWith(raw, <<"agent", ":">>)
                \/ StartsWith(raw, <<"openclaw", "/">>)
        THEN raw
        ELSE <<"agent", ":">> \o raw

\* An entry of chat_log.content.
Entry(role, content) == [role |-> role, content |-> content]
ChatEntries ==
    { Entry("system", JStr("")), Entry("user", JStr("Hello")),
      Entry("user", JStr("Lights on")), Entry("assistant", JStr("Hi there")),
      Entry("assistant", JStr("")), Entry("assistant", JNull),
      Entry("tool_result", JNull) }
ChatLogs == SeqsUpTo(ChatEntries, MaxLog)
SystemPrompts == { JStr("Be brief."), JStr("") }

\* The loop without the test of the assistant entry's content.
RECURSIVE HistoryOfKeepsEmpty(_)
HistoryOfKeepsEmpty(content) ==
    IF content = <<>> THEN <<>>
    ELSE LET entry == Head(content)
             rest == HistoryOfKeepsEmpty(Tail(content))
         IN  IF entry.role = "user"
             THEN <<Msg("user", entry.content)>> \o rest
             ELSE IF entry.role = "assistant"
             THEN <<Msg("assistant", entry.content)>> \o rest
             ELSE rest

\* The loop over chat_log.content: a user entry always, an assistant entry
\* when its content is truthy, nothing else.
RECURSIVE HistoryOf(_)
HistoryOf(content) ==
    IF content = <<>> THEN <<>>
    ELSE LET entry == Head(content)
             rest == HistoryOf(Tail(content))
         IN  IF entry.role = "user"
             THEN <<Msg("user", entry.content)>> \o rest
             ELSE IF entry.role = "assistant" /\ Truthy(entry.content)
             THEN <<Msg("assistant", entry.content)>> \o rest
             ELSE rest

\* history[:n] in the place of history[-n:].
FirstN(history, n) ==
    IF n >= Len(history) THEN history ELSE SubSeq(history, 1, n)

\* history[-n:] for n > 0.
LastN(history, n) ==
    IF n >= Len(history) THEN history
    ELSE SubSeq(history, Len(history) - n + 1, Len(history))

\* _build_messages
BuildMessages(chat_log, system_prompt, max_history) ==
    LET history == HistoryOf(chat_log)
    IN  <<Msg("system", system_prompt)>> \o
        (IF max_history > 0 THEN LastN(history, max_history) ELSE history)

\* const.py
ERROR_UNREACHABLE == "I can't reach my brain right now. Try again in a moment."
ERROR_AUTH == "I'm having trouble authenticating. Check my settings."
ERROR_TIMEOUT == "That took too long. Try asking again."
ERROR_UNKNOWN == "Something went wrong on my end. Try again."

\* The names const.py defines.  conversation.py (l.25) and config_flow.py
\* (l.24) import CONF_MODEL_OVERRIDE as well, which is not among them.
ConstNames ==
    { "DOMAIN", "CONF_API_KEY", "CONF_BASE_URL", "CONF_AGENT_ID",
      "CONF_VERIFY_SSL", "CONF_SYSTEM_PROMPT", "CONF_TIMEOUT",
      "CONF_MAX_HISTORY", "DEFAULT_BASE_URL", "DEFAULT_AGENT_ID",
      "DEFAULT_TIMEOUT", "DEFAULT_MAX_HISTORY", "DEFAULT_SYSTEM_PROMPT",
      "ERROR_UNREACHABLE", "ERROR_AUTH", "ERROR_TIMEOUT", "ERROR_UNKNOWN" }

\* What the lookup of an undefined global name raises.
NameError == Exc("NameError", FALSE, FALSE)

\* Whether the lookup of a global name imported from const.py raises
\* NameError when a line of the handler runs.
LoadGlobalRaises(name) == name \notin ConstNames

UserInputs ==
    [conversation_id : { JStr("conv-1"), JStr("conv-2"), JNull },
     language : { "en", "de" }, agent_id : { "conversation.hearth" }]
HandlerOptions ==
    { [system_prompt |-> JStr("Be brief."), max_history |-> 2,
       model_override |-> Text(<<>>), agent_id |-> <<"main">>],
      [system_prompt |-> JStr(""), max_history |-> 0,
       model_override |-> Text(<<"openclaw", "/", "gpt">>),
       agent_id |-> <<"main">>] }
HandlerLogs ==
    { <<Entry("user", JStr("Hello"))>>,
      <<Entry("system", JStr("")), Entry("user", JStr("Hello")),
        Entry("assistant", JStr("Hi there")), Entry("user", JStr("Lights on"))>> }

\* _async_handle_message from its start to the first place it can suspend
\* or leave.  It reads two options (l.79-80) and then looks up
\* CONF_MODEL_OVERRIDE (l.81): const.py does not define the name, so the
\* NameError leaves the handler there, before the messages are built and
\* before chat_completion is called; the chat log is as it was and there
\* is no result.  Were the name defined, the handler would resolve the
\* model, build the messages and suspend in chat_completion (l.88).
AsyncHandleMessage(user_input, chat_log, options) ==
    IF LoadGlobalRaises("CONF_MODEL_OVERRIDE")
        THEN [raised |-> TRUE, exc |-> NameError, requested |-> FALSE,
              messages |-> <<>>, model |-> <<>>,
              chat_log |-> chat_log, result |-> <<>>]
        ELSE [raised |-> FALSE, exc |-> NoExc, requested |-> TRUE,
              messages |-> BuildMessages(chat_log, options.system_prompt,
                                         options.max_history),
              model |-> ResolveModel(options.model_override,
                                     options.agent_id),
              chat_log |-> chat_log, result |-> <<>>]

\* A function of conversation.py about to run on its arguments.
Run(name, args) == [name |-> name, args |-> args, done |-> FALSE, out |-> <<>>]

ResolveRuns ==
    { Run("_resolve_model", [model_override |-> o, agent_id |-> a]) :
        o \in Overrides, a \in AgentIds }
BuildRuns ==
    { Run("_build_messages",
          [chat_log |-> l, system_prompt |-> p, max_history |-> n]) :
        l \in ChatLogs, p \in SystemPrompts, n \in 0..MaxHistory }
HandleRuns ==
    { Run("_async_handle_message",
          [user_input |-> u, chat_log |-> l, options |-> o]) :
        u \in UserInputs, l \in HandlerLogs, o \in HandlerOptions }

InitConversation ==
    /\ injected = FALSE
    /\ session = NoSession
    /\ owned_session = TRUE
    /\ sess = [s \in Sids |->
                 [state |-> "unused", by |-> "", cfg |-> NoConfig]]
    /\ closeIssued = <<>>
    /\ closeOut = "none"
    /\ closing = 0
    /\ call = [c \in Calls |-> IdleCall]
    /\ fn \in ResolveRuns \cup BuildRuns \cup HandleRuns
    /\ config = Config("secret", TRUE, 30)
    /\ flow = NoFlow

RunResolveModel ==
    /\ fn.name = "_resolve_model" /\ ~fn.done
    /\ fn' = [fn EXCEPT !.done = TRUE,
                        !.out = ResolveModel(fn.args.model_override,
                                             fn.args.agent_id)]
    /\ UNCHANGED <<session, owned_session, injected, sess, closeIssued,
                   closeOut, closing, call, config, flow>>

RunBuildMessages ==
    /\ fn.name = "_build_messages" /\ ~fn.done
    /\ fn' = [fn EXCEPT !.done = TRUE,
                        !.out = BuildMessages(fn.args.chat_log,
                                              fn.args.system_prompt,
                                              fn.args.max_history)]
    /\ UNCHANGED <<session, owned_session, injected, sess, closeIssued,
                   closeOut, closing, call, config, flow>>

\* The handler runs: it ends at l.81, before its first await, so this is
\* one step, and the client is not used.
RunHandleMessage ==
    /\ fn.name = "_async_handle_message" /\ ~fn.done
    /\ fn' = [fn EXCEPT !.done = TRUE,
                        !.out = AsyncHandleMessage(fn.args.user_input,
                                    fn.args.chat_log, fn.args.options)]
    /\ UNCHANGED <<session, owned_session, injected, sess, closeIssued,
                   closeOut, closing, call, config, flow>>

NextConversation ==
    \/ RunResolveModel
    \/ RunBuildMessages
    \/ RunHandleMessage

SpecConversation == InitConversation /\ [][NextConversation]_vars

(***************************************************************************)
(* __init__.py and config_flow.py: the entry's setup and unload, and the   *)
(* first step of the config flow.  Each constructs a client of its own     *)
(* (no session is injected) and validates the connection with it.          *)
(***************************************************************************)
\* timeout=entry.options.get(CONF_TIMEOUT, DEFAULT_TIMEOUT): the option is
\* held between 5 and 120 by the options form.
DEFAULT_TIMEOUT == 30
EntryTimeouts == {5, DEFAULT_TIMEOUT, 120}

\* The client as async_setup_entry and async_step_user construct it, before
\* validate_connection is awaited.  The config flow passes no timeout.
InitEntry ==
    /\ injected = FALSE
    /\ session = NoSession
    /\ owned_session = TRUE
    /\ sess = [s \in Sids |->
                 [state |-> "unused", by |-> "", cfg |-> NoConfig]]
    /\ closeIssued = <<>>
    /\ closeOut = "none"
    /\ closing = 0
    /\ call = [c \in Calls |-> IdleCall]
    /\ fn = NoFn
    /\ \E verify_ssl \in BOOLEAN :
         \/ /\ flow = [NoFlow EXCEPT !.kind = "async_setup_entry",
                                     !.pc = "start"]
            /\ \E timeout \in EntryTimeouts :
                 config = Config("secret", verify_ssl, timeout)
         \/ /\ flow = [NoFlow EXCEPT !.kind = "async_step_user",
                                     !.pc = "start"]
            /\ config = Config("secret", verify_ssl, DEFAULT_TIMEOUT)

\* await client.validate_connection() of async_setup_entry begins.
SetupValidate ==
    /\ flow.kind = "async_setup_entry" /\ flow.pc = "start"
    /\ InvokeClient(1, "validate_connection", NoArgs)
    /\ flow' = [flow EXCEPT !.pc = "validating"]
    /\ UNCHANGED fn

\* The except clauses of async_setup_entry on the outcome r of
\* validate_connection: whether client.close() is awaited, and the
\* exception that leaves the function ("" when none does).  An exception
\* that is none of the three typed errors meets no clause.
SetupOnValidated(r) ==
    IF ~Raised(r) THEN [close |-> FALSE, raises |-> ""]
    ELSE IF r.exc = OpenClawAuthError
    THEN [close |-> TRUE, raises |-> "ConfigEntryAuthFailed"]
    ELSE IF r.exc \in {OpenClawConnectionError, OpenClawTimeoutError}
    THEN [close |-> TRUE, raises |-> "ConfigEntryNotReady"]
    ELSE [close |-> FALSE, raises |-> r.exc.name]

\* validate_connection has ended: the except clause that matches runs, or
\* the client is stored as entry.runtime_data and the platforms are
\* forwarded to.  An except clause awaits client.close() first; when that
\* suspends, the exception is raised once it has returned (SetupClosed).
SetupValidated(suspends) ==
    /\ flow.kind = "async_setup_entry" /\ flow.pc = "validating"
    /\ call[1].pc = "done"
    /\ LET h == SetupOnValidated(call[1].out)
       IN  /\ IF h.close THEN CloseClient(suspends)
              ELSE /\ ~suspends
                   /\ UNCHANGED <<session, owned_session, injected, sess,
                                  closeIssued, closeOut, closing, call,
                                  config>>
           /\ flow' = IF suspends
                      THEN [flow EXCEPT !.pc = "close", !.closes = @ + 1]
                      ELSE [flow EXCEPT
                              !.pc = IF h.raises = "" THEN "forwarding"
                                     ELSE "failed",
                              !.closes = IF h.close THEN @ + 1 ELSE @,
                              !.runtime_data = (h.raises = ""),
                              !.result = h.raises]
    /\ UNCHANGED fn

\* client.close() returns in an except clause of async_setup_entry, and the
\* clause raises.
SetupClosed ==
    /\ flow.kind = "async_setup_entry" /\ flow.pc = "close"
    /\ ~flow.runtime_data
    /\ CloseReturnsClient
    /\ flow' = [flow EXCEPT !.pc = "failed",
                            !.result = SetupOnValidated(call[1].out).raises]
    /\ UNCHANGED fn

\* await async_forward_entry_setups(...) returns, and async_setup_entry
\* returns True; or it raises, and the exception leaves async_setup_entry.
SetupForwarded(ok) ==
    /\ flow.kind = "async_setup_entry" /\ flow.pc = "forwarding"
    /\ flow' = [flow EXCEPT !.pc = IF ok THEN "loaded" ELSE "failed",
                            !.result = IF ok THEN "True" ELSE "forward_error"]
    /\ UNCHANGED <<session, owned_session, injected, sess, closeIssued,
                   closeOut, closing, call, fn, config>>

\* async_unload_entry: the platforms' unload answers unload_ok, and
\* entry.runtime_data.close() is awaited if it is true.  The function
\* returns unload_ok once close() has returned: at once, or in UnloadClosed
\* when close() suspends (flow.result is then still what was returned
\* last).
UnloadEntry(unload_ok, suspends) ==
    /\ flow.kind = "async_setup_entry" /\ flow.pc = "loaded"
    /\ IF unload_ok THEN CloseClient(suspends)
       ELSE /\ ~suspends
            /\ UNCHANGED <<session, owned_session, injected, sess,
                           closeIssued, closeOut, closing, call, config>>
    /\ flow' = [flow EXCEPT
                  !.pc = IF suspends THEN "close"
                         ELSE IF unload_ok THEN "unloaded" ELSE "loaded",
                  !.closes = IF unload_ok THEN @ + 1 ELSE @,
                  !.result = IF suspends THEN @
                             ELSE IF unload_ok THEN "True" ELSE "False"]
    /\ UNCHANGED fn

\* entry.runtime_data.close() returns, and async_unload_entry returns True.
UnloadClosed ==
    /\ flow.kind = "async_setup_entry" /\ flow.pc = "close"
    /\ flow.runtime_data
    /\ CloseReturnsClient
    /\ flow' = [flow EXCEPT !.pc = "unloaded", !.result = "True"]
    /\ UNCHANGED fn

\* await client.validate_connection() of async_step_user begins.
StepUserValidate ==
    /\ flow.kind = "async_step_user" /\ flow.pc = "start"
    /\ InvokeClient(1, "validate_connection", NoArgs)
    /\ flow' = [flow EXCEPT !.pc = "validating"]
    /\ UNCHANGED fn

\* The except clauses with a timeout taken for a connection error.
StepUserErrorsTimeoutAsConnection(r) ==
    IF ~Raised(r) THEN ""
    ELSE IF r.exc = OpenClawAuthError THEN "invalid_auth"
    ELSE IF r.exc \in {OpenClawConnectionError, OpenClawTimeoutError}
    THEN "cannot_connect"
    ELSE "unknown"

\* The except clauses of async_step_user: errors["base"] for the outcome r
\* of validate_connection, "" when it returned.
StepUserErrors(r) ==
    IF ~Raised(r) THEN ""
    ELSE IF r.exc = OpenClawAuthError THEN "invalid_auth"
    ELSE IF r.exc = OpenClawConnectionError THEN "cannot_connect"
    ELSE IF r.exc = OpenClawTimeoutError THEN "timeout"
    ELSE "unknown"

\* What async_step_user returns or raises after the finally clause: the
\* form with the error, the abort, or the new entry.
StepUserResult(key, configured) ==
    IF key # "" THEN "form" ELSE IF configured THEN "abort" ELSE "create_entry"

\* validate_connection has ended in async_step_user: an except clause sets
\* the error and the form is shown again; or the else branch sets the unique
\* id, and aborts if it is configured already or creates the entry.  The
\* finally clause awaits client.close() on each of these ways; when that
\* suspends, the step ends once it has returned (StepUserClosed).
\* flow.error and flow.result are what the step has handed back.
StepUserValidated(configured, suspends) ==
    /\ flow.kind = "async_step_user" /\ flow.pc = "validating"
    /\ call[1].pc = "done"
    /\ CloseClient(suspends)
    /\ LET key == StepUserErrors(call[1].out)
       IN  flow' = IF suspends
                   THEN [flow EXCEPT !.pc = "close", !.closes = @ + 1,
                                     !.configured = configured]
                   ELSE [flow EXCEPT
                           !.pc = "done",
                           !.closes = @ + 1,
                           !.configured = configured,
                           !.error = key,
                           !.result = StepUserResult(key, configured)]
    /\ UNCHANGED fn

\* client.close() returns in the finally clause, and the step ends.
StepUserClosed ==
    /\ flow.kind = "async_step_user" /\ flow.pc = "close"
    /\ CloseReturnsClient
    /\ LET key == StepUserErrors(call[1].out)
       IN  flow' = [flow EXCEPT
                      !.pc = "done",
                      !.error = key,
                      !.result = StepUserResult(key, flow.configured)]
    /\ UNCHANGED fn

NextEntry ==
    \/ SetupValidate
    \/ StepUserValidate
    \/ \E status \in Statuses : Respond(1, status)
    \/ \E f \in TransportFaults : TransportFault(1, f)
    \/ \E suspends \in BOOLEAN : SetupValidated(suspends)
    \/ SetupClosed
    \/ \E ok \in BOOLEAN : SetupForwarded(ok)
    \/ \E unload_ok, suspends \in BOOLEAN : UnloadEntry(unload_ok, suspends)
    \/ UnloadClosed
    \/ \E configured, suspends \in BOOLEAN :
            StepUserValidated(configured, suspends)
    \/ StepUserClosed

SpecEntry == InitEntry /\ [][NextEntry]_vars

(***************************************************************************)
(* What the properties speak of.                                           *)
(***************************************************************************)
Done(c) == call[c].pc = "done"
RaisedKind(c, e) == Done(c) /\ Raised(call[c].out) /\ call[c].out.exc = e
Returned(c) == Done(c) /\ ~Raised(call[c].out)
\* The status of a response that arrived (0: none arrived).
GotStatus(c) == call[c].status # 0
\* The transport raised a fault into the call.
GotFault(c) == call[c].fault.name # ""

OpenSessions == {s \in Sids : sess[s].state = "open"}
HeldUnusable == session = NoSession \/ sess[session].state = "closed"

\* The stream body as the protocol describes it, line by line.
IsDataLine(line) == StartsWithData(Strip(line))
IsDoneLine(line) == IsDataLine(line) /\ AfterPrefix(Strip(line)) = <<"[DONE]">>

\* choices[0].delta.content of a JSON value when it is there and a string.
HasContent(v) ==
    /\ v.k = "obj" /\ "choices" \in DOMAIN v.v
    /\ v.v["choices"].k = "list" /\ Len(v.v["choices"].v) > 0
    /\ v.v["choices"].v[1].k = "obj"
    /\ "delta" \in DOMAIN v.v["choices"].v[1].v
    /\ v.v["choices"].v[1].v["delta"].k = "obj"
    /\ "content" \in DOMAIN v.v["choices"].v[1].v["delta"].v
    /\ v.v["choices"].v[1].v["delta"].v["content"].k = "str"

ContentOf(v) == v.v["choices"].v[1].v["delta"].v["content"].v

\* The content fragment of a line: "" when it is no data line, no JSON, or
\* has no content.
FragmentOf(line) ==
    LET p == Strip(AfterPrefix(Strip(line)))
    IN  IF IsDataLine(line) /\ Len(p) = 1 /\ p[1] \in JsonTexts
           /\ HasContent(JsonValue(p[1]))
        THEN ContentOf(JsonValue(p[1]))
        ELSE ""

\* The place of the first [DONE] line (past the end when there is none).
FirstDone(lines) ==
    IF \E i \in 1..Len(lines) : IsDoneLine(lines[i])
    THEN CHOOSE i \in 1..Len(lines) :
            IsDoneLine(lines[i]) /\ \A j \in 1..(i - 1) : ~IsDoneLine(lines[j])
    ELSE Len(lines) + 1

RECURSIVE Fragments(_, _)
Fragments(lines, n) ==
    IF n = 0 THEN "" ELSE Fragments(lines, n - 1) \o FragmentOf(lines[n])

Expected(lines) == Fragments(lines, FirstDone(lines) - 1)

(***************************************************************************)
(* Properties.                                                             *)
(***************************************************************************)
\* C1: in each of the three operations a response status of 401 or 403
\* ends the operation with OpenClawAuthError: no other error, no value.
C1_AuthStatusYieldsAuthError ==
    \A c \in Calls :
        call[c].status \in {401, 403} => RaisedKind(c, OpenClawAuthError)

C1_Witness ==
    \E c \in Calls :
        /\ call[c].op = "chat_completion_stream" /\ call[c].status = 403
        /\ RaisedKind(c, OpenClawAuthError)

\* C2 as stated: every status outside 200-299 other than 401 and 403 ends
\* the operation with OpenClawConnectionError, never with a value.
C2_NonSuccessYieldsConnectionError ==
    \A c \in Calls :
        (GotStatus(c) /\ call[c].status \notin 200..299
                      /\ call[c].status \notin {401, 403})
            => RaisedKind(c, OpenClawConnectionError)

\* C2 amended: every status of 400 and above other than 401 and 403 ends
\* the operation with OpenClawConnectionError, never with a value.
C2_ErrorStatusYieldsConnectionError ==
    \A c \in Calls :
        (call[c].status >= 400 /\ call[c].status \notin {401, 403})
            => RaisedKind(c, OpenClawConnectionError)

C2_Witness ==
    \E c \in Calls :
        /\ call[c].op = "chat_completion" /\ call[c].status = 500
        /\ RaisedKind(c, OpenClawConnectionError)

\* C3: a transport timeout at any phase (request, body, stream line) ends
\* the operation with OpenClawTimeoutError, also when the fault is a client
\* error as well.
C3_TimeoutYieldsTimeoutError ==
    \A c \in Calls :
        (GotFault(c) /\ call[c].fault.isTimeout)
            => RaisedKind(c, OpenClawTimeoutError)

C3_Witness ==
    \E c \in Calls :
        /\ call[c].op = "chat_completion_stream"
        /\ call[c].fault.isTimeout /\ call[c].fault.isClientError
        /\ call[c].faultAt = "lines" /\ call[c].chunks # <<>>
        /\ RaisedKind(c, OpenClawTimeoutError)

\* C4: a transport failure that is not a timeout (refused, DNS, reset,
\* TLS), at the request or while the body is read, ends the operation with
\* OpenClawConnectionError and no other error.
C4_ClientErrorYieldsConnectionError ==
    \A c \in Calls :
        (GotFault(c) /\ call[c].fault.isClientError /\ ~call[c].fault.isTimeout)
            => RaisedKind(c, OpenClawConnectionError)

C4_Witness ==
    \E c \in Calls :
        /\ call[c].op = "validate_connection"
        /\ call[c].fault.name = "ClientConnectorError"
        /\ RaisedKind(c, OpenClawConnectionError)

\* C5 as stated: on a successful response without a transport fault the
\* streaming operation returns a string whatever the data lines hold; a
\* payload that is no JSON or lacks choices[0].delta.content at any level
\* is skipped and never makes the operation raise.
C5_MalformedLinesNeverRaise ==
    \A c \in Calls :
        (/\ call[c].op = "chat_completion_stream" /\ Done(c)
         /\ GotStatus(c) /\ ~Raised(StreamOnResponse(call[c].status))
         /\ ~GotFault(c)
         /\ \A i \in 1..Len(call[c].lines) : Decodable(call[c].lines[i]))
            => Returned(c)

\* C6: the streaming operation returns the concatenation, in arrival
\* order, of the content fragments of the data lines before the first
\* [DONE] line (or before the end of the body); nothing is read after the
\* first [DONE], and a body without a fragment gives the empty string.
C6_StreamResultIsConcatenation ==
    \A c \in Calls :
        (call[c].op = "chat_completion_stream" /\ Returned(c))
            => /\ call[c].out.val.k = "str"
               /\ call[c].out.val.v = Expected(call[c].lines)
               /\ FirstDone(call[c].lines) >= Len(call[c].lines)

C6_Witness ==
    \E c \in Calls :
        /\ call[c].op = "chat_completion_stream" /\ Returned(c)
        /\ call[c].lines = <<LineHello, LineWorld, LineDone>>
        /\ call[c].out.val.v = "Hello world"

\* C7: the client never calls close on the session injected at
\* construction, also after it was closed by its owner and replaced.
C7_InjectedNeverClosedByClient ==
    injected => \A i \in 1..Len(closeIssued) : closeIssued[i] # InjectedSid

C7_Witness ==
    /\ injected /\ sess[InjectedSid].state = "closed"
    /\ session # InjectedSid /\ closeIssued # <<>>

\* C8: at every step at most one session of the client is open, and a
\* session is created only when the held one is absent or closed, however
\* invocations and closes interleave.
C8_AtMostOneOpenSession ==
    [][/\ Cardinality(OpenSessions) <= 1
       /\ Cardinality({s \in Sids : sess'[s].state = "open"}) <= 1
       /\ (\E s \in Sids : sess[s].state = "unused" /\ sess'[s].state # "unused")
            => HeldUnusable]_vars

C8_Witness ==
    \E c, d \in Calls :
        /\ c # d /\ call[c].pc = "request" /\ call[d].pc = "request"
        /\ call[c].created /\ ~call[d].created /\ call[c].sid = call[d].sid
        /\ ~injected /\ Cardinality(OpenSessions) = 1

\* C9: close() never raises and leaves the client's fields as they are;
\* once it has run its test (and awaits session.close() or has returned)
\* the client holds no open session of its own, and when there was none to
\* close (never created, closed before by close() or by someone else) it
\* issues no close, changes nothing and returns at once; the return of a
\* close() that was suspended in session.close() changes nothing either.
C9_CloseIdempotent ==
    [][/\ closeOut' # "raised"
       /\ Close =>
            /\ closeOut' = "returned" \/ closing' = closing + 1
            /\ session' = session /\ owned_session' = owned_session
            /\ ~(owned_session' /\ session' # NoSession
                    /\ sess'[session'].state = "open")
            /\ (HeldUnusable \/ ~owned_session)
                 => /\ sess' = sess /\ closeIssued' = closeIssued
                    /\ closeOut' = "returned" /\ closing' = closing
       /\ CloseReturns =>
            /\ closeOut' = "returned"
            /\ session' = session /\ owned_session' = owned_session
            /\ sess' = sess /\ closeIssued' = closeIssued]_vars

C9_Witness ==
    /\ closeOut = "returned" /\ owned_session
    /\ session = NoSession /\ closeIssued = <<>>

\* C10: an operation invoked while the held session is absent or closed
\* creates a new open session, marks it as owned and issues its request on
\* it; no request is ever issued on a closed session.
C10_SelfHealing ==
    [][\A c \in Calls :
          (call[c].pc = "idle" /\ call'[c].pc # "idle")
            => /\ call'[c].sid = session'
               /\ sess'[session'].state = "open"
               /\ call'[c].openAtIssue
               /\ HeldUnusable =>
                    /\ session' # session
                    /\ sess[session'].state = "unused"
                    /\ owned_session']_vars

C10_Witness ==
    \E c \in Calls :
        /\ call[c].pc = "request" /\ call[c].created
        /\ closeIssued # <<>> /\ call[c].sid = session
        /\ call[c].sid # closeIssued[1]

\* The sessions the client created that are open.
OpenCreated(ss) == {s \in Sids : ss[s].state = "open" /\ ss[s].by = "client"}
InFlight(c) == call[c].pc \in {"request", "json", "lines"}

\* C11: close() never raises, whatever operations are in flight; once it
\* has run (it has returned, or awaits session.close()) no session the
\* client created is open, its return opens none, and none becomes open
\* until an operation is invoked again: so once the operations invoked
\* before it have finished the client holds no open session of its own.
C11_CloseDuringOperation ==
    [][/\ closeOut' # "raised"
       /\ Close => OpenCreated(sess') = {}
       /\ CloseReturns => OpenCreated(sess') = OpenCreated(sess)
       /\ (OpenCreated(sess) = {} /\ OpenCreated(sess') # {})
            => \E c \in Calls : call[c].pc = "idle" /\ call'[c].pc # "idle"]_vars

\* close() has closed the session on which a call is still in flight.
C11_Witness ==
    \E c \in Calls :
        /\ InFlight(c) /\ call[c].created
        /\ closeOut = "returned" /\ closeIssued = <<call[c].sid>>
        /\ OpenCreated(sess) = {}

\* The JSON value of a chat_completion body (JNull when it has none).
BodyParses(body) ==
    /\ body.json_ctype
    /\ Len(Strip(body.text)) = 1 /\ Strip(body.text)[1] \in JsonTexts
BodyValue(body) == IF BodyParses(body) THEN JsonValue(Strip(body.text)[1]) ELSE JNull

\* The path choices[0].message.content is there.
HasMessagePath(v) ==
    /\ v.k = "obj" /\ "choices" \in DOMAIN v.v
    /\ v.v["choices"].k = "list" /\ Len(v.v["choices"].v) > 0
    /\ v.v["choices"].v[1].k = "obj"
    /\ "message" \in DOMAIN v.v["choices"].v[1].v
    /\ v.v["choices"].v[1].v["message"].k = "obj"
    /\ "content" \in DOMAIN v.v["choices"].v[1].v["message"].v
MessageContent(v) == v.v["choices"].v[1].v["message"].v["content"]

\* chat_completion got a success status and then its body, with no fault.
ChatGotBody(c) ==
    /\ call[c].op = "chat_completion" /\ Done(c)
    /\ call[c].status \in 200..299 /\ ~GotFault(c)

\* C12: chat_completion posts one request whose payload has the messages
\* in the given order, the model reference as given and stream false; on
\* a success response whose JSON body has choices[0].message.content as a
\* string it returns that string as it is.
C12_ChatCompletionReturnsContent ==
    \A c \in Calls :
        /\ (call[c].op = "chat_completion" /\ call[c].pc # "idle")
             => call[c].reqs =
                  <<[method |-> "POST", path |-> "/v1/chat/completions",
                     json |-> TRUE,
                     payload |-> [model |-> call[c].args.agent_id,
                                  messages |-> call[c].args.messages,
                                  stream |-> FALSE]]>>
        /\ (/\ ChatGotBody(c) /\ BodyParses(call[c].body)
            /\ HasMessagePath(BodyValue(call[c].body))
            /\ MessageContent(BodyValue(call[c].body)).k = "str")
             => /\ Returned(c)
                /\ call[c].out.val = MessageContent(BodyValue(call[c].body))

C12_Witness ==
    \E c \in Calls :
        /\ ChatGotBody(c) /\ call[c].args = ArgsCodex
        /\ call[c].body = Body(TRUE, <<TxtReplyPadded>>)
        /\ Returned(c) /\ call[c].out.val = JStr(" Hi \n")

Classified ==
    { OpenClawAuthError, OpenClawConnectionError, OpenClawTimeoutError }

\* C13 as stated: on a success status, a body that cannot be parsed, is
\* not of the JSON content type or lacks choices[0].message.content makes
\* chat_completion fail with an error that is none of the three classified
\* ones; it never returns a value.
C13_MalformedBodyUnclassified ==
    \A c \in Calls :
        (ChatGotBody(c) /\ ~(/\ BodyParses(call[c].body)
                             /\ HasMessagePath(BodyValue(call[c].body))))
            => /\ Raised(call[c].out)
               /\ call[c].out.exc \notin Classified

\* C13 amended: on a success status, a body of the JSON content type that
\* cannot be parsed or lacks choices[0].message.content makes
\* chat_completion fail with an error that is none of the three classified
\* ones; a body that is not of the JSON content type makes it fail with
\* OpenClawConnectionError; in neither case it returns a value.
C13_MalformedJsonBodyUnclassified ==
    \A c \in Calls :
        /\ (/\ ChatGotBody(c) /\ call[c].body.json_ctype
            /\ ~(/\ BodyParses(call[c].body)
                 /\ HasMessagePath(BodyValue(call[c].body))))
             => /\ Raised(call[c].out)
                /\ call[c].out.exc \notin Classified
        /\ (ChatGotBody(c) /\ ~call[c].body.json_ctype)
             => RaisedKind(c, OpenClawConnectionError)

C13_Witness ==
    \E c \in Calls :
        /\ ChatGotBody(c) /\ call[c].body = Body(TRUE, <<TxtEmptyChoices>>)
        /\ RaisedKind(c, IndexError)

\* C14: an invocation of any of the three operations issues one request
\* when it starts and no other, whatever its outcome: nothing is retried.
C14_AtMostOneRequest ==
    \A c \in Calls :
        /\ Len(call[c].reqs) <= 1
        /\ call[c].pc # "idle" => Len(call[c].reqs) = 1

C14_Witness ==
    \E c \in Calls :
        /\ call[c].op = "chat_completion" /\ call[c].faultAt = "request"
        /\ RaisedKind(c, OpenClawTimeoutError) /\ Len(call[c].reqs) = 1

IsStream(c) == call[c].op = "chat_completion_stream"

\* C18 as stated: the status is classified once, before any line is read;
\* on 401 or 403 and on every other status outside 200-299 the streaming
\* operation fails without reading a line, and once a line was read no
\* OpenClawAuthError comes out.
C18_NonSuccessStopsBeforeLines ==
    \A c \in Calls :
        (IsStream(c) /\ GotStatus(c) /\ call[c].status \notin 200..299)
            => /\ Done(c) /\ Raised(call[c].out)
               /\ call[c].lines = <<>>

\* C18 amended: in the streaming operation the status is classified once,
\* when the response arrives and before any line is read; on 401 or 403 it
\* fails with OpenClawAuthError and on every other status of 400 and above
\* with OpenClawConnectionError, without reading a line; once a line was
\* read no OpenClawAuthError comes out.
C18_StatusClassifiedBeforeLines ==
    [][\A c \in Calls : IsStream(c) =>
          /\ call'[c].status # call[c].status
               => /\ call[c].status = 0 /\ call[c].pc = "request"
                  /\ call'[c].lines = <<>>
          /\ call'[c].lines # call[c].lines
               => /\ GotStatus(c) /\ call'[c].status = call[c].status
                  /\ call[c].status < 400
          /\ call'[c].status >= 400
               => /\ call'[c].pc = "done" /\ call'[c].lines = <<>>
                  /\ call'[c].out =
                       Raise(IF call'[c].status \in {401, 403}
                             THEN OpenClawAuthError
                             ELSE OpenClawConnectionError)
          /\ call'[c].lines # <<>>
               => call'[c].out.exc # OpenClawAuthError]_vars

\* A line was read, the call failed afterwards, and not with an auth error.
C18_Witness ==
    \E c \in Calls :
        /\ IsStream(c) /\ call[c].status = 200
        /\ Len(call[c].lines) = 2 /\ RaisedKind(c, TypeError)

\* C19: a transport failure while the lines are read, after fragments
\* were collected, ends the streaming operation with OpenClawTimeoutError
\* (a timeout) or OpenClawConnectionError (another client error); the
\* fragments are not returned, and no fault ever leaves a returned value.
C19_NoPartialResult ==
    \A c \in Calls :
        IsStream(c) =>
            /\ GotFault(c) => (Done(c) /\ Raised(call[c].out))
            /\ (/\ GotFault(c) /\ call[c].faultAt = "lines"
                /\ call[c].chunks # <<>>
                /\ (call[c].fault.isTimeout \/ call[c].fault.isClientError))
                 => call[c].out =
                      Raise(IF call[c].fault.isTimeout
                            THEN OpenClawTimeoutError
                            ELSE OpenClawConnectionError)

C19_Witness ==
    \E c \in Calls :
        /\ IsStream(c) /\ call[c].faultAt = "lines"
        /\ call[c].fault.name = "ClientOSError"
        /\ Len(call[c].chunks) = 2
        /\ RaisedKind(c, OpenClawConnectionError)

\* The line read by the step, when the step reads one.
ReadsLine(c) == IsStream(c) /\ Len(call'[c].lines) = Len(call[c].lines) + 1
LineRead(c) == call'[c].lines[Len(call'[c].lines)]
\* The step ends the call with a value.
ReturnsNow(c) ==
    call[c].pc # "done" /\ call'[c].pc = "done" /\ ~Raised(call'[c].out)

\* C20 as stated: only the trailing whitespace of a line is trimmed; a
\* line that then does not start with "data: " (so also one with
\* whitespace before it) adds no content and does not end the stream, and
\* the stream is ended by a payload that is exactly "[DONE]".
C20_OnlyTrailingTrimmed ==
    [][\A c \in Calls : (ReadsLine(c) /\ Decodable(LineRead(c))) =>
          LET t == RStrip(LineRead(c))
          IN  /\ ~StartsWithData(t)
                   => (call'[c].chunks = call[c].chunks /\ call'[c].pc = "lines")
              /\ ReturnsNow(c)
                   => (StartsWithData(t) /\ AfterPrefix(t) = <<"[DONE]">>)
              /\ (StartsWithData(t) /\ AfterPrefix(t) = <<"[DONE]">>)
                   => (call'[c].chunks = call[c].chunks /\ call'[c].pc = "done")]_vars

\* C20 amended: the whitespace at both ends of a line is trimmed; a line
\* that then does not start with "data: " adds no content and does not
\* end the stream, and the stream is ended by a line whose payload after
\* the prefix is exactly "[DONE]", also when whitespace precedes "data: ".
C20_BothEndsTrimmed ==
    [][\A c \in Calls : (ReadsLine(c) /\ Decodable(LineRead(c))) =>
          LET t == LStrip(RStrip(LineRead(c)))
          IN  /\ ~StartsWithData(t)
                   => (call'[c].chunks = call[c].chunks /\ call'[c].pc = "lines")
              /\ ReturnsNow(c)
                   => (StartsWithData(t) /\ AfterPrefix(t) = <<"[DONE]">>)
              /\ (StartsWithData(t) /\ AfterPrefix(t) = <<"[DONE]">>)
                   => (call'[c].chunks = call[c].chunks /\ call'[c].pc = "done")]_vars

\* An indented data line gave content, a padded [DONE] was passed over and
\* an indented [DONE] ended the stream.
C20_Witness ==
    \E c \in Calls :
        /\ IsStream(c) /\ Returned(c)
        /\ call[c].lines = <<LineIndentedOK, LinePaddedDone, LineIndentedDone>>
        /\ call[c].out.val = JStr("OK")

Ran(name) == fn.name = name /\ fn.done

\* The override is None, empty or whitespace only.
Blank(o) == o.k = "null" \/ LStrip(o.v) = <<>>
\* A text is passed through: it has "/" or starts with a routing prefix.
Routed(t) ==
    \/ HasSlash(t) \/ StartsWith(t, <<"agent", ":">>)
    \/ StartsWith(t, <<"openclaw", "/">>)

\* C15 as stated: _resolve_model gives "agent:" and the agent for a blank
\* override, the override unchanged when it has "/" or starts with
\* "agent:" or "openclaw/", and "agent:" and the override otherwise; every
\* result has "/" or starts with "agent:".
C15_ResolveModelOnOverride ==
    Ran("_resolve_model") =>
        LET o == fn.args.model_override
        IN  /\ Blank(o) => fn.out = <<"agent", ":">> \o fn.args.agent_id
            /\ (~Blank(o) /\ Routed(o.v)) => fn.out = o.v
            /\ (~Blank(o) /\ ~Routed(o.v)) => fn.out = <<"agent", ":">> \o o.v
            /\ HasSlash(fn.out) \/ StartsWith(fn.out, <<"agent", ":">>)

\* C15 amended: _resolve_model gives "agent:" and the agent for a blank
\* override; otherwise it takes the override without the whitespace at
\* its ends, and gives it as it is when it has "/" or starts with "agent:"
\* or "openclaw/", and "agent:" followed by it when not; every result has
\* "/" or starts with "agent:".
C15_ResolveModelOnStrippedOverride ==
    Ran("_resolve_model") =>
        LET o == fn.args.model_override
            t == IF Blank(o) THEN <<>> ELSE LStrip(RStrip(o.v))
        IN  /\ Blank(o) => fn.out = <<"agent", ":">> \o fn.args.agent_id
            /\ (~Blank(o) /\ Routed(t)) => fn.out = t
            /\ (~Blank(o) /\ ~Routed(t)) => fn.out = <<"agent", ":">> \o t
            /\ HasSlash(fn.out) \/ StartsWith(fn.out, <<"agent", ":">>)

\* " voice ": the name is prefixed without the whitespace around it.
C15_Witness ==
    /\ Ran("_resolve_model")
    /\ fn.args.model_override = Text(<<" ", "voice", " ">>)
    /\ fn.out = <<"agent", ":", "voice">>

\* The history messages of a chat log: its user entries and its assistant
\* entries with content, as messages.
IsHistory(entry) ==
    entry.role = "user" \/ (entry.role = "assistant" /\ Truthy(entry.content))
HistoryMessages(chat_log) ==
    LET kept == SelectSeq(chat_log, IsHistory)
    IN  [i \in 1..Len(kept) |-> Msg(kept[i].role, kept[i].content)]
Min(a, b) == IF a <= b THEN a ELSE b

\* C16: _build_messages returns the system message with the configured
\* prompt, then the last min(N, count) history messages in their order
\* when max_history is N > 0, and all of them when it is 0; no other
\* system message is in the result.
C16_BuildMessagesShape ==
    Ran("_build_messages") =>
        LET h == HistoryMessages(fn.args.chat_log)
            n == fn.args.max_history
            k == IF n > 0 THEN Min(n, Len(h)) ELSE Len(h)
        IN  /\ Len(fn.out) = 1 + k
            /\ fn.out[1] = Msg("system", fn.args.system_prompt)
            /\ \A i \in 1..k : fn.out[1 + i] = h[Len(h) - k + i]
            /\ \A i \in 2..Len(fn.out) : fn.out[i].role # "system"

\* Three history messages behind a system entry, cut to the last two.
C16_Witness ==
    /\ Ran("_build_messages") /\ fn.args.max_history = 2
    /\ fn.args.chat_log =
         <<Entry("user", JStr("Hello")), Entry("assistant", JStr("Hi there")),
           Entry("user", JStr("Lights on"))>>
    /\ fn.out = <<Msg("system", fn.args.system_prompt),
                  Msg("assistant", JStr("Hi there")),
                  Msg("user", JStr("Lights on"))>>

\* The reply texts of const.py for the failures of chat_completion.
ErrorTexts == {ERROR_AUTH, ERROR_UNREACHABLE, ERROR_TIMEOUT, ERROR_UNKNOWN}

\* C17 as stated: _async_handle_message does not raise; whatever way
\* chat_completion ends, it has called it, appends exactly one assistant
\* entry with one reply text (a str: the completion or one of the four
\* error texts, which differ from each other) to the chat log, and returns
\* a result with the same text and the conversation id of the input.
C17_HandlerAlwaysReplies ==
    /\ Cardinality(ErrorTexts) = 4
    /\ Ran("_async_handle_message")
         => /\ ~fn.out.raised
            /\ fn.out.requested
            /\ Len(fn.out.chat_log) = Len(fn.args.chat_log) + 1
            /\ SubSeq(fn.out.chat_log, 1, Len(fn.args.chat_log))
                 = fn.args.chat_log
            /\ fn.out.chat_log[Len(fn.out.chat_log)].role = "assistant"
            /\ fn.out.result.speech
                 = fn.out.chat_log[Len(fn.out.chat_log)].content
            /\ fn.out.result.conversation_id
                 = fn.args.user_input.conversation_id

\* C21 as stated: every operation runs on a session configured with the
\* TLS flag and the total timeout of the client's endpoint configuration,
\* whether the session was created lazily, created again after a close,
\* or injected at construction.
C21_SessionsCarryClientConfig ==
    \A c \in Calls :
        call[c].pc # "idle"
            => sess[call[c].sid].cfg =
                 [ssl |-> config.verify_ssl, timeout |-> config.timeout]

\* C22: the steps by which an operation goes on and finishes (response,
\* body, line, end of body, fault) leave the held session, its state and
\* the ownership flag as they are, so an operation that ends, however it
\* ends, leaves the session it used in place; an operation invoked while
\* the held session is open uses it and creates none; and no step, close()
\* included, changes the endpoint configuration.
C22_OperationLeavesSession ==
    [][/\ config' = config
       /\ \A c \in Calls :
            (call[c].pc # "idle" /\ call'[c] # call[c])
              => /\ session' = session /\ owned_session' = owned_session
                 /\ sess' = sess
       /\ \A c \in Calls :
            (call[c].pc = "idle" /\ call'[c].pc # "idle" /\ ~HeldUnusable)
              => /\ call'[c].sid = session /\ ~call'[c].created
                 /\ session' = session /\ owned_session' = owned_session
                 /\ sess' = sess]_vars

\* An operation failed with a timeout; the next one runs on the session
\* the first one created, which is still held and open.
C22_Witness ==
    /\ RaisedKind(1, OpenClawTimeoutError) /\ call[1].created
    /\ call[2].pc = "request" /\ ~call[2].created
    /\ call[2].sid = call[1].sid /\ session = call[1].sid
    /\ sess[session].state = "open" /\ owned_session
    /\ closeOut = "none"


\* C23: every message _build_messages returns after the system message comes
\* from a user entry or from an assistant entry with non-empty content, in
\* the order of the log; the entries of other roles and the assistant
\* entries with empty or None content are dropped before the truncation:
\* they take no place among the max_history messages, and the result is
\* the one of the log without them.
C23_OnlyHistoryForwarded ==
    Ran("_build_messages") =>
        LET log == fn.args.chat_log
            n == fn.args.max_history
            kept == SelectSeq(log, IsHistory)
            tail == SubSeq(fn.out, 2, Len(fn.out))
        IN  /\ \A i \in 1..Len(tail) :
                 /\ tail[i].role \in {"user", "assistant"}
                 /\ tail[i].role = "assistant" => Truthy(tail[i].content)
                 /\ tail[i] = Msg(kept[Len(kept) - Len(tail) + i].role,
                                 kept[Len(kept) - Len(tail) + i].content)
            /\ (n > 0 /\ Len(kept) >= n) => Len(tail) = n
            /\ (n = 0 \/ Len(kept) < n) => Len(tail) = Len(kept)
            /\ fn.out = BuildMessages(kept, fn.args.system_prompt, n)

\* An assistant entry without content between two user entries, and room
\* for two messages: both user entries are forwarded.
C23_Witness ==
    /\ Ran("_build_messages") /\ fn.args.max_history = 2
    /\ fn.args.chat_log =
         <<Entry("user", JStr("Hello")), Entry("assistant", JNull),
           Entry("user", JStr("Lights on"))>>
    /\ fn.out = <<Msg("system", fn.args.system_prompt),
                  Msg("user", JStr("Hello")),
                  Msg("user", JStr("Lights on"))>>

\* C24 as stated: when async_setup_entry ends without success because
\* validate_connection failed, in whatever way, the client has been closed
\* before the failure leaves the function; after a successful setup the
\* client is the entry's runtime data and its session is open; and when
\* async_unload_entry has run, the client is closed exactly if the
\* platforms' unload succeeded.
C24_FailedSetupClosesClient ==
    flow.kind = "async_setup_entry" =>
        /\ (flow.pc = "failed" /\ Raised(call[1].out))
              => /\ flow.closes = 1
                 /\ sess[session].state = "closed"
        /\ flow.pc = "loaded"
              => /\ flow.runtime_data /\ flow.closes = 0
                 /\ sess[session].state = "open"
        /\ flow.pc = "unloaded"
              => /\ flow.closes = 1
                 /\ sess[session].state = "closed"

\* C25: on every way through async_step_user with user input (the entry is
\* created, the flow aborts because the unique id is configured, or
\* validate_connection fails with an authentication, connection, timeout
\* or unexpected error) the step's client is closed exactly once, after
\* the validation and before the step hands anything back; each kind of
\* failure sets its own error key: invalid_auth, cannot_connect, timeout,
\* unknown.
C25_StepUserClosesOnce ==
    flow.kind = "async_step_user" =>
        /\ flow.pc \in {"start", "validating"}
              => /\ flow.closes = 0 /\ closeIssued = <<>>
                 /\ flow.result = ""
        /\ flow.pc = "close"
              => /\ flow.closes = 1 /\ closeIssued = <<session>>
                 /\ flow.result = ""
        /\ flow.pc = "done" =>
              /\ flow.closes = 1
              /\ closeIssued = <<session>>
              /\ sess[session].state = "closed"
              /\ closing = 0
              /\ flow.error =
                   (CASE Returned(1) -> ""
                      [] RaisedKind(1, OpenClawAuthError) -> "invalid_auth"
                      [] RaisedKind(1, OpenClawConnectionError)
                           -> "cannot_connect"
                      [] RaisedKind(1, OpenClawTimeoutError) -> "timeout"
                      [] OTHER -> "unknown")
              /\ Returned(1) <=> flow.result \in {"create_entry", "abort"}
              /\ ~Returned(1) <=> flow.result = "form"

\* The validation timed out, the form is shown with the timeout key, and
\* the client's session is closed.
C25_Witness ==
    /\ flow.kind = "async_step_user" /\ flow.pc = "done"
    /\ RaisedKind(1, OpenClawTimeoutError)
    /\ flow.error = "timeout" /\ flow.result = "form"
    /\ flow.closes = 1 /\ sess[session].state = "closed"

\* C26: the ownership flag is false exactly when the session the client
\* holds is the injected one; once it is true it is never false again; and
\* whenever it is true the client holds no session or one it created.
C26_OwnershipFlag ==
    /\ [](/\ ~owned_session <=> (injected /\ session = InjectedSid)
          /\ owned_session =>
                \/ session = NoSession
                \/ sess[session].by = "client")
    /\ [][owned_session => owned_session']_vars

\* The injected session was closed by its owner and the client made its
\* own for the next operation: the flag has turned true.
C26_Witness ==
    /\ injected /\ owned_session
    /\ session # InjectedSid /\ sess[session].by = "client"
    /\ sess[InjectedSid].state = "closed"
    /\ \E c \in Calls : call[c].pc # "idle" /\ call[c].created

\* The loop of chat_completion_stream handles a line once and does not read
\* past a [DONE] line: a step of a call that is reading lines handles at
\* most one line, which adds at most one fragment, and no line the loop
\* has gone on from is a [DONE] line.
LoopHandlesEachLineOnce ==
    /\ [](\A c \in Calls :
            call[c].pc = "lines"
              => \A i \in 1..Len(call[c].lines) :
                    ~IsDoneLine(call[c].lines[i]))
    /\ [][\A c \in Calls :
            (call[c].pc = "lines" /\ call'[c] # call[c])
              => /\ Len(call'[c].chunks) <= Len(call[c].chunks) + 1
                 /\ \/ call'[c].lines = call[c].lines
                    \/ \E line \in LiveLines :
                          call'[c].lines \in
                             { Append(call[c].lines, line),
                               Tail(Append(call[c].lines, line)) }]_vars

\* On a session with a total timeout every invocation completes in the
\* end, however long the body: the timeout ends it.
TimedSessionCompletes ==
    \A c \in Calls :
        (call[c].pc # "idle" /\ sess[call[c].sid].cfg.timeout # NoTotal)
            ~> Done(c)

\* C27: when the transport answers every pending step in the end (with a
\* response, a line, the end of the body, a fault or a timeout), every
\* invocation of validate_connection, chat_completion and
\* chat_completion_stream completes in the end (returns or raises), and
\* the stream loop handles each line once and ends at the first [DONE]
\* line or at the end of the body.
C27_EveryInvocationCompletes ==
    /\ \A c \in Calls : (call[c].pc # "idle") ~> Done(c)
    /\ LoopHandlesEachLineOnce

====
